---- MODULE Spec2Model ----
(***************************************************************************)
(* Model of investment_calculator.py: the two future-value functions, the  *)
(* Streamlit script run that stores the results bundle, and the report     *)
(* writer.                                                                 *)
(*                                                                         *)
(* Numbers.  Python computes with unbounded ints and with floats.  The     *)
(* model computes exactly: a number is a fraction num/den of arbitrarily   *)
(* large integers, held as base-1000 limb sequences  because the integers  *)
(* of the checker are 32 bits wide.  The only operation of the source that *)
(* leaves the rationals is  x ** (1/12);  expected returns are therefore   *)
(* drawn from the values whose effective monthly growth factor is rational *)
(* and the twelfth root is found by search among those factors.            *)
(***************************************************************************)
EXTENDS Integers, Sequences, FiniteSets, TLC

(***************************************************************************)
(* Bounds of the model.                                                    *)
(***************************************************************************)
MaxGrowthExp == 6       \* monthly growth factors 1 + 1/2^j, j up to this
MaxYears == 2           \* longest horizon

(***************************************************************************)
(* Natural numbers of any size: little-endian limbs below Base, no leading *)
(* zero limb, zero is the empty sequence.  Limbs are combined position by  *)
(* position and the carries are then moved up one position at a time, so   *)
(* the evaluation never nests deeper than the longest run of carries.      *)
(***************************************************************************)
Base == 10 * 10 * 10

RECURSIVE NFromInt(_)
NFromInt(i) == IF i = 0 THEN << >> ELSE <<i % Base>> \o NFromInt(i \div Base)

\* drop the leading zero limbs
NStrip(v) ==
    LET nz == {i \in 1..Len(v) : v[i] # 0}
        top == IF nz = {} THEN 0 ELSE CHOOSE i \in nz : \A j \in nz : j <= i
    IN  SubSeq(v, 1, top)

\* one step of carrying: every limb keeps its residue and takes the
\* quotient of the limb below (a negative quotient is a borrow)
NCarryStep(v) ==
    SubSeq([k \in 1..(Len(v) + 1) |->
                (IF k <= Len(v) THEN v[k] % Base ELSE 0)
                    + (IF k > 1 THEN v[k - 1] \div Base ELSE 0)],
           1, Len(v) + 1)

RECURSIVE NCarry(_)
NCarry(v) ==
    IF \A i \in 1..Len(v) : 0 <= v[i] /\ v[i] < Base
    THEN NStrip(v)
    ELSE NCarry(NStrip(NCarryStep(v)))

NLimb(a, i) == IF 1 <= i /\ i <= Len(a) THEN a[i] ELSE 0

NMaxLen(a, b) == IF Len(a) >= Len(b) THEN Len(a) ELSE Len(b)

NAdd(a, b) ==
    NCarry(SubSeq([i \in 1..NMaxLen(a, b) |-> NLimb(a, i) + NLimb(b, i)],
                  1, NMaxLen(a, b)))

\* a - b for a >= b
NSub(a, b) ==
    NCarry(SubSeq([i \in 1..NMaxLen(a, b) |-> NLimb(a, i) - NLimb(b, i)],
                  1, NMaxLen(a, b)))

\* f[lo] + ... + f[hi], by halves
RECURSIVE NSum(_, _, _)
NSum(f, lo, hi) ==
    IF lo > hi THEN 0
    ELSE IF lo = hi THEN f[lo]
    ELSE LET mid == (lo + hi) \div 2
         IN  NSum(f, lo, mid) + NSum(f, mid + 1, hi)

NMul(a, b) ==
    IF a = << >> \/ b = << >> THEN << >>
    ELSE LET n == Len(a) + Len(b) - 1
             col(k) ==
                 LET lo == IF k - Len(b) + 1 > 1 THEN k - Len(b) + 1 ELSE 1
                     hi == IF k < Len(a) THEN k ELSE Len(a)
                 IN  NSum([i \in lo..hi |-> a[i] * b[k + 1 - i]], lo, hi)
         IN  NCarry(SubSeq([k \in 1..n |-> col(k)], 1, n))

\* -1, 0, 1 as a < b, a = b, a > b
NCmp(a, b) ==
    IF Len(a) < Len(b) THEN -1
    ELSE IF Len(a) > Len(b) THEN 1
    ELSE LET df == {i \in 1..Len(a) : a[i] # b[i]}
         IN  IF df = {} THEN 0
             ELSE LET top == CHOOSE i \in df : \A j \in df : j <= i
                  IN  IF a[top] < b[top] THEN -1 ELSE 1

(***************************************************************************)
(* Integers: sign and magnitude.                                           *)
(***************************************************************************)
ZMake(neg, mag) == [neg |-> neg /\ mag # << >>, mag |-> mag]

ZFromInt(i) == IF i < 0 THEN ZMake(TRUE, NFromInt(-i)) ELSE ZMake(FALSE, NFromInt(i))

ZNeg(a) == ZMake(~a.neg, a.mag)

ZAdd(a, b) ==
    IF a.neg = b.neg THEN ZMake(a.neg, NAdd(a.mag, b.mag))
    ELSE IF NCmp(a.mag, b.mag) >= 0 THEN ZMake(a.neg, NSub(a.mag, b.mag))
    ELSE ZMake(b.neg, NSub(b.mag, a.mag))

ZMul(a, b) == ZMake(a.neg # b.neg, NMul(a.mag, b.mag))

ZSign(a) == IF a.mag = << >> THEN 0 ELSE IF a.neg THEN -1 ELSE 1

(***************************************************************************)
(* Real values of the program: fractions num/den, den > 0.                 *)
(***************************************************************************)
QMake(num, den) == [num |-> num, den |-> den]

QInt(i) == QMake(ZFromInt(i), NFromInt(1))

QFrac(n, d) == QMake(ZFromInt(n), NFromInt(d))

QAdd(a, b) ==
    QMake(ZAdd(ZMul(a.num, ZMake(FALSE, b.den)), ZMul(b.num, ZMake(FALSE, a.den))),
          NMul(a.den, b.den))

QNeg(a) == QMake(ZNeg(a.num), a.den)

QSub(a, b) == QAdd(a, QNeg(b))

QMul(a, b) == QMake(ZMul(a.num, b.num), NMul(a.den, b.den))

\* b # 0
QDiv(a, b) ==
    QMake(ZMake(a.num.neg # b.num.neg, NMul(a.num.mag, b.den)),
          NMul(a.den, b.num.mag))

QSign(a) == ZSign(a.num)

QCmp(a, b) == QSign(QSub(a, b))

\* a = b by cross-multiplication (den > 0 on both sides)
QEq(a, b) == ZMul(a.num, ZMake(FALSE, b.den)) = ZMul(b.num, ZMake(FALSE, a.den))

QLt(a, b) == QCmp(a, b) < 0

QLe(a, b) == QCmp(a, b) <= 0

\* 1 / a for a # 0
QInv(a) == QMake(ZMake(a.num.neg, a.den), a.num.mag)

\* a ** n for an integer n >= 0
RECURSIVE QPowNat(_, _)
QPowNat(a, n) ==
    IF n = 0 THEN QInt(1)
    ELSE IF n % 2 = 1 THEN QMul(a, QPowNat(a, n - 1))
    ELSE LET h == QPowNat(a, n \div 2) IN QMul(h, h)

(***************************************************************************)
(* Python's ** for the two uses the source makes of it.                    *)
(***************************************************************************)
\* x ** n with an integer n: 0 ** negative raises ZeroDivisionError
PowInt(x, n) ==
    IF n >= 0 THEN [kind |-> "real", val |-> QPowNat(x, n)]
    ELSE IF QSign(x) = 0 THEN [kind |-> "ZeroDivisionError"]
    ELSE [kind |-> "real", val |-> QInv(QPowNat(x, -n))]

\* Monthly growth factors 1 + 1/2^j (j = 0 is a doubling every month)
GrowthFactor(j) == QFrac(2^j + 1, 2^j)

\* The monthly growth factors whose twelfth power the model can be given,
\* with their twelfth powers
RootCandidates ==
    {QInt(0), QFrac(1, 2), QInt(1)} \cup {GrowthFactor(j) : j \in 0..MaxGrowthExp}

RootTable == {<<g, QPowNat(g, 12)>> : g \in RootCandidates}

\* x ** (1/12): a negative float to a fractional power is a complex number
Pow12th(x) ==
    IF QSign(x) < 0 THEN [kind |-> "complex"]
    ELSE [kind |-> "real",
          val  |-> (CHOOSE e \in RootTable : QEq(e[2], x))[1]]

(***************************************************************************)
(* calculate_sip_future_value, calculate_lumpsum_future_value              *)
(***************************************************************************)
Return(v) == [kind |-> "return", val |-> v]

Raise(e) == [kind |-> e]

\* lines 14-15: annual_rate, then monthly_rate (real or complex)
MonthlyRate(annual_return) ==
    Pow12th(QAdd(QInt(1), QDiv(annual_return, QInt(100))))

SipCompound(sip_amount, monthly_rate, months) ==
    QMul(QDiv(QMul(QInt(sip_amount),
                   QSub(PowInt(QAdd(QInt(1), monthly_rate), months).val, QInt(1))),
              monthly_rate),
         QAdd(QInt(1), monthly_rate))

\* a slip: the months counted twice
SipLinearMonthsTwice(sip_amount, months) == QInt(sip_amount * months * 12)

SipLinear(sip_amount, months) == QInt(sip_amount * months)

\* a slip: the comparison of monthly_rate turned round
SipBranchFlipped(sip_amount, monthly_rate, months) ==
    IF QSign(monthly_rate) < 0
    THEN Return(SipCompound(sip_amount, monthly_rate, months))
    ELSE Return(SipLinear(sip_amount, months))

\* lines 18-23
SipBranch(sip_amount, monthly_rate, months) ==
    IF QSign(monthly_rate) > 0
    THEN Return(SipCompound(sip_amount, monthly_rate, months))
    ELSE Return(SipLinear(sip_amount, months))

\* lines 15-23 from the twelfth root on: a complex monthly_rate cannot be
\* compared with 0
SipFromRoot(sip_amount, root, years) ==
    IF root.kind = "complex" THEN Raise("TypeError")
    ELSE SipBranch(sip_amount, QSub(root.val, QInt(1)), years * 12)

\* a slip: only a zero amount short-circuits
SipGuardOnlyZero(sip_amount, annual_return, years) ==
    IF sip_amount = 0 THEN Return(QInt(0))
    ELSE SipFromRoot(sip_amount, MonthlyRate(annual_return), years)

calculate_sip_future_value(sip_amount, annual_return, years) ==
    IF sip_amount <= 0 THEN Return(QInt(0))
    ELSE SipFromRoot(sip_amount, MonthlyRate(annual_return), years)

\* line 31, given the power
LumpsumFromPower(lumpsum_amount, pw) ==
    IF pw.kind = "real"
    THEN Return(QMul(QInt(lumpsum_amount), pw.val))
    ELSE Raise(pw.kind)

calculate_lumpsum_future_value(lumpsum_amount, annual_return, years) ==
    IF lumpsum_amount <= 0 THEN Return(QInt(0))
    ELSE LumpsumFromPower(lumpsum_amount,
             PowInt(QAdd(QInt(1), QDiv(annual_return, QInt(100))), years))

(***************************************************************************)
(* create_excel_report: the cells of the 'Summary' worksheet, keyed by     *)
(* zero-based <<row, column>>; text holds the strings written, number the  *)
(* numeric values.  A later write to a cell replaces an earlier one.       *)
(***************************************************************************)
result_start_row == 10
breakdown_start_row == 15
breakdown_header_row == breakdown_start_row + 1

\* 'A7' -> <<6, 0>>
A1(col, row) == <<row - 1, col>>

Put(cell, v) == cell :> v

\* a slip: range(1, investment_years)
ReportYearsShort(investment_years) == [i \in 1..(investment_years - 1) |-> i]

ReportYears(investment_years) == [i \in 1..investment_years |-> i]

InputLabels ==
    <<"Monthly SIP Amount", "Lumpsum Amount", "Investment Period (Years)",
      "Expected Annual Return (%)">>

InputValues(results) ==
    <<QInt(results.sip_amount), QInt(results.lumpsum_amount),
      QInt(results.investment_years), QDiv(results.expected_return, QInt(100))>>

ResultLabels == <<"Total Investment", "Total Returns", "Total Wealth Created">>

ResultValues(results) ==
    <<QInt(results.total_investment), results.total_return, results.total_future>>

Headers == <<"Year", "SIP Value", "Lumpsum Value", "Total Value">>

\* lines 160-165: the four cells of a year's row
ReportCells(year, sip_val, lump_val) ==
    <<QInt(year), sip_val, lump_val, QAdd(sip_val, lump_val)>>

ReportRow(results, year) ==
    ReportCells(year,
                calculate_sip_future_value(results.sip_amount,
                    results.expected_return, year).val,
                calculate_lumpsum_future_value(results.lumpsum_amount,
                    results.expected_return, year).val)

\* lines 156-165 over the years ys
YearCells(ys, rows) ==
    [c \in {<<breakdown_header_row + 1 + idx, col>> :
                idx \in 0..(Len(ys) - 1), col \in 0..3}
        |-> rows[c[1] - breakdown_header_row][c[2] + 1]]

YearRows(results, ys) ==
    YearCells(ys, SubSeq([i \in 1..Len(ys) |-> ReportRow(results, ys[i])], 1, Len(ys)))

create_excel_report(results) ==
    [text |->
        [c \in {<<breakdown_header_row, col>> : col \in 0..3} |-> Headers[c[2] + 1]]
            @@ [c \in {A1(0, result_start_row + 1 + idx) : idx \in 0..2}
                    |-> ResultLabels[c[1] + 1 - result_start_row]]
            @@ [c \in {A1(0, 5 + idx) : idx \in 0..3} |-> InputLabels[c[1] - 3]]
            @@ Put(A1(0, breakdown_start_row), "Year-wise Growth")
            @@ Put(A1(0, result_start_row), "Results Summary")
            @@ Put(A1(0, 4), "Input Parameters")
            @@ Put(A1(0, 2), "Generated on")
            @@ Put(A1(0, 1), "Investment Summary Report"),
     number |->
        YearRows(results, ReportYears(results.investment_years))
            @@ [c \in {A1(1, result_start_row + 1 + idx) : idx \in 0..2}
                    |-> ResultValues(results)[c[1] + 1 - result_start_row]]
            @@ [c \in {A1(1, 5 + idx) : idx \in 0..3}
                    |-> InputValues(results)[c[1] - 3]]]

(***************************************************************************)
(* The script body past  if calculate_btn:                                 *)
(***************************************************************************)
\* a slip: the twelve months of a year forgotten
TotalInvestmentPerYear(sip_amount, lumpsum_amount, investment_years) ==
    (sip_amount * investment_years) + lumpsum_amount

TotalInvestment(sip_amount, lumpsum_amount, investment_years) ==
    (sip_amount * 12 * investment_years) + lumpsum_amount

\* a slip: the operands exchanged
TotalReturnSwapped(total_future, total_investment) ==
    QSub(QInt(total_investment), total_future)

TotalReturn(total_future, total_investment) ==
    QSub(total_future, QInt(total_investment))

\* lines 277-292, given the two future values
Bundle(sip_amount, lumpsum_amount, investment_years, expected_return, sip_future, lumpsum_future) ==
    [sip_amount       |-> sip_amount,
     lumpsum_amount   |-> lumpsum_amount,
     investment_years |-> investment_years,
     expected_return  |-> expected_return,
     sip_future       |-> sip_future,
     lumpsum_future   |-> lumpsum_future,
     total_future     |-> QAdd(sip_future, lumpsum_future),
     total_investment |-> TotalInvestment(sip_amount, lumpsum_amount, investment_years),
     total_return     |-> TotalReturn(QAdd(sip_future, lumpsum_future),
                              TotalInvestment(sip_amount, lumpsum_amount,
                                              investment_years))]

Results(sip_amount, lumpsum_amount, investment_years, expected_return) ==
    Bundle(sip_amount, lumpsum_amount, investment_years, expected_return,
           calculate_sip_future_value(sip_amount, expected_return,
                                      investment_years).val,
           calculate_lumpsum_future_value(lumpsum_amount, expected_return,
                                          investment_years).val)

None == [absent |-> TRUE]

\* a variant: a bundle already in the session is kept
StoreUnlessPresent(stored, fresh) == IF stored = None THEN fresh ELSE stored

\* line 282: the assignment replaces whatever the session held
StoreResults(stored, fresh) == fresh

\* a slip: range(1, investment_years)
ChartYearsShort(investment_years) == [i \in 1..(investment_years - 1) |-> i]

ChartYears(investment_years) == [i \in 1..investment_years |-> i]

\* lines 378-386 for one year
ChartRow(year, sip_val, lump_val) ==
    [Year |-> year, SIP |-> sip_val, Lumpsum |-> lump_val,
     Total |-> QAdd(sip_val, lump_val)]

ChartRows(sip_amount, lumpsum_amount, expected_return, ys) ==
    SubSeq([i \in 1..Len(ys) |->
               ChartRow(ys[i],
                        calculate_sip_future_value(sip_amount, expected_return, ys[i]).val,
                        calculate_lumpsum_future_value(lumpsum_amount, expected_return,
                                                       ys[i]).val)],
           1, Len(ys))

ChartData(sip_amount, lumpsum_amount, investment_years, expected_return) ==
    ChartRows(sip_amount, lumpsum_amount, expected_return, ChartYears(investment_years))

(***************************************************************************)
(* Input domains.                                                          *)
(***************************************************************************)
\* The expected return (percent) whose effective monthly growth factor is g
ReturnOfGrowth(g) == QMul(QInt(100), QSub(QPowNat(g, 12), QInt(1)))

\* number_input minimum, default and step of the amounts and the years
SipMin == 0
SipDefault == 5000
SipStep == 500
LumpsumMin == 0
LumpsumDefault == 50000
YearsMin == 1
YearsMax == 50
YearsDefault == 10

\* number_input bounds of the expected return
ReturnMin == QFrac(1, 10)
ReturnMax == QInt(50)

SipAmounts == {SipMin, SipDefault}
LumpsumAmounts == {LumpsumMin, LumpsumDefault}
InvestmentYears == {y \in 1..MaxYears : YearsMin <= y /\ y <= YearsMax}
ExpectedReturns ==
    {r \in {ReturnOfGrowth(GrowthFactor(j)) : j \in 0..MaxGrowthExp} :
        QLe(ReturnMin, r) /\ QLe(r, ReturnMax)}

\* Arguments of direct calls of the two functions: any sign, any rate
ArgAmounts == {-SipStep, 0, SipStep, SipDefault}
ArgYears == -1..MaxYears
ArgReturns ==
    {QInt(-150), QInt(-100), QInt(0), ReturnOfGrowth(QFrac(1, 2))}
        \cup {ReturnOfGrowth(GrowthFactor(j)) : j \in 0..MaxGrowthExp}

(***************************************************************************)
(* State.                                                                  *)
(***************************************************************************)
VARIABLES
    sip_amount, lumpsum_amount, investment_years, expected_return, \* widgets
    calculate_btn,      \* st.button's value in the latest run
    session_results,    \* st.session_state.results
    chart_data,         \* the series drawn in the latest run
    download_data,      \* the report offered by the download button
    arg_amount, arg_return, arg_years,  \* arguments of a direct call
    ret                 \* its outcome

appVars ==
    <<sip_amount, lumpsum_amount, investment_years, expected_return,
      calculate_btn, session_results, chart_data, download_data>>

engineVars == <<arg_amount, arg_return, arg_years, ret>>

vars == <<appVars, engineVars>>

NoCall == [fn |-> "none"]

AppIdle ==
    /\ calculate_btn = FALSE
    /\ session_results = None
    /\ chart_data = << >>
    /\ download_data = None

EngineIdle ==
    /\ arg_amount = 0
    /\ arg_return = QInt(0)
    /\ arg_years = 0
    /\ ret = NoCall

(***************************************************************************)
(* The application: script runs.                                           *)
(***************************************************************************)
Init ==
    /\ sip_amount \in SipAmounts
    /\ lumpsum_amount \in LumpsumAmounts
    /\ investment_years \in InvestmentYears
    /\ expected_return \in ExpectedReturns
    /\ AppIdle
    /\ EngineIdle

\* A run in which the button was not clicked: the widgets keep what the
\* user entered and the block under  if calculate_btn:  is skipped.
RunWithoutClick(sip, lump, yrs, rate) ==
    /\ sip_amount' = sip
    /\ lumpsum_amount' = lump
    /\ investment_years' = yrs
    /\ expected_return' = rate
    /\ calculate_btn' = FALSE
    /\ session_results' = session_results
    /\ chart_data' = << >>
    /\ download_data' = None
    /\ UNCHANGED engineVars

EditSip ==
    \E v \in SipAmounts \ {sip_amount} :
        RunWithoutClick(v, lumpsum_amount, investment_years, expected_return)

EditLumpsum ==
    \E v \in LumpsumAmounts \ {lumpsum_amount} :
        RunWithoutClick(sip_amount, v, investment_years, expected_return)

EditYears ==
    \E v \in InvestmentYears \ {investment_years} :
        RunWithoutClick(sip_amount, lumpsum_amount, v, expected_return)

EditReturn ==
    \E v \in ExpectedReturns \ {expected_return} :
        RunWithoutClick(sip_amount, lumpsum_amount, investment_years, v)

\* The run after a click on Calculate Returns: lines 271-398
ClickCalculate ==
    /\ calculate_btn' = TRUE
    /\ session_results' =
          StoreResults(session_results,
                       Results(sip_amount, lumpsum_amount, investment_years,
                               expected_return))
    /\ chart_data' = ChartData(sip_amount, lumpsum_amount, investment_years,
                               expected_return)
    /\ download_data' = create_excel_report(session_results')
    /\ UNCHANGED <<sip_amount, lumpsum_amount, investment_years, expected_return>>
    /\ UNCHANGED engineVars

\* The run after a click on the download button
ClickDownload ==
    /\ download_data # None
    /\ RunWithoutClick(sip_amount, lumpsum_amount, investment_years, expected_return)

Next ==
    \/ EditSip
    \/ EditLumpsum
    \/ EditYears
    \/ EditReturn
    \/ ClickCalculate
    \/ ClickDownload

Spec == Init /\ [][Next]_vars

(***************************************************************************)
(* Direct calls of the two functions.                                      *)
(***************************************************************************)
InitEngine ==
    /\ arg_amount \in ArgAmounts
    /\ arg_return \in ArgReturns
    /\ arg_years \in ArgYears
    /\ ret = NoCall
    /\ sip_amount = SipDefault
    /\ lumpsum_amount = LumpsumDefault
    /\ investment_years = YearsDefault
    /\ expected_return = QInt(12)
    /\ AppIdle

CallSip ==
    /\ ret' = [fn |-> "sip",
               out |-> calculate_sip_future_value(arg_amount, arg_return, arg_years)]
    /\ UNCHANGED <<arg_amount, arg_return, arg_years, appVars>>

CallLumpsum ==
    /\ ret' = [fn |-> "lumpsum",
               out |-> calculate_lumpsum_future_value(arg_amount, arg_return, arg_years)]
    /\ UNCHANGED <<arg_amount, arg_return, arg_years, appVars>>

Supply ==
    /\ arg_amount' \in ArgAmounts
    /\ arg_return' \in ArgReturns
    /\ arg_years' \in ArgYears
    /\ ret' = NoCall
    /\ UNCHANGED appVars

NextEngine == CallSip \/ CallLumpsum \/ Supply

SpecEngine == InitEngine /\ [][NextEngine]_vars

(***************************************************************************)
(* Properties of the two functions, checked under SpecEngine.              *)
(***************************************************************************)
Call(fn, a, r, y) ==
    IF fn = "sip" THEN calculate_sip_future_value(a, r, y)
    ELSE calculate_lumpsum_future_value(a, r, y)

\* C1: calculate_sip_future_value accepts every annual_return <= 0, values
\* below -100 included: for sip_amount > 0 it returns normally and its
\* result is sip_amount * years * 12.
C1_NonPositiveReturnIsLinear ==
    (ret.fn = "sip" /\ arg_amount > 0 /\ QSign(arg_return) <= 0)
        => /\ ret.out.kind = "return"
           /\ QEq(ret.out.val, QInt(arg_amount * arg_years * 12))

\* C2: for every annual_return and every years, either function returns
\* exactly 0 when its amount is <= 0, the growth formula not being evaluated.
C2_NonPositiveAmountGivesZero ==
    (ret.fn \in {"sip", "lumpsum"} /\ arg_amount <= 0)
        => ret.out = Return(QInt(0))

\* a sip call with no amount at a return where the formula would raise
C2_Witness ==
    /\ ret.fn = "sip"
    /\ arg_amount < 0
    /\ QLt(arg_return, QInt(-100))
    /\ ret.out.kind = "return"

\* C3: at annual_return = 0, for every amount A > 0 and years >= 0, the
\* lumpsum value is A and the sip value is A * years * 12.
C3_ZeroReturn ==
    (ret.fn \in {"sip", "lumpsum"} /\ arg_amount > 0 /\ QSign(arg_return) = 0
            /\ arg_years >= 0)
        => /\ ret.out.kind = "return"
           /\ ret.fn = "lumpsum" => QEq(ret.out.val, QInt(arg_amount))
           /\ ret.fn = "sip" => QEq(ret.out.val, QInt(arg_amount * arg_years * 12))

C3_Witness ==
    /\ ret.fn = "sip"
    /\ arg_amount > 0
    /\ QSign(arg_return) = 0
    /\ arg_years > 0
    /\ QSign(ret.out.val) > 0

C9_ZeroYearsGivesZero ==
    (ret.fn = "sip" /\ arg_amount > 0 /\ arg_years = 0)
        => /\ ret.out.kind = "return"
           /\ QEq(ret.out.val, QInt(0))

(***************************************************************************)
(* Properties of the script run and the report, checked under Spec.        *)
(***************************************************************************)
\* C4: after Calculate the year-wise series has exactly investment_years
\* entries, its years are 1..investment_years in ascending order, and the
\* total of its last entry equals the summary's total_future.
C4_SeriesMatchesSummary ==
    calculate_btn
        => /\ Len(chart_data) = investment_years
           /\ \A i \in 1..Len(chart_data) : chart_data[i].Year = i
           /\ QEq(chart_data[Len(chart_data)].Total, session_results.total_future)

C4_Witness ==
    /\ calculate_btn
    /\ investment_years >= 2
    /\ sip_amount > 0
    /\ lumpsum_amount > 0
    /\ Len(chart_data) >= 2

\* C5: the stored summary has total_investment = sip_amount * 12 *
\* investment_years + lumpsum_amount and total_return = total_future -
\* total_investment; 5000, 50000 and 10 years give 650000.
C5_SummaryTotals ==
    /\ TotalInvestment(5000, 50000, 10) = 650000
    /\ session_results # None
           => /\ session_results.total_investment =
                    session_results.sip_amount * 12 * session_results.investment_years
                        + session_results.lumpsum_amount
              /\ QEq(session_results.total_return,
                     QSub(session_results.total_future,
                          QInt(session_results.total_investment)))

C5_Witness ==
    /\ session_results # None
    /\ session_results.sip_amount > 0
    /\ session_results.lumpsum_amount > 0
    /\ session_results.investment_years >= 2

\* C7: with non-negative amounts and investment_years >= 1, total_return is
\* >= 0 for every expected return >= 0 (it is negative only for a negative
\* return); a return of 0 with the inputs of the run included.
C7_ReturnNotNegative ==
    /\ QSign(Results(sip_amount, lumpsum_amount, investment_years, QInt(0)).total_return) >= 0
    /\ (session_results # None /\ QSign(session_results.expected_return) >= 0)
           => QSign(session_results.total_return) >= 0

C7_Witness ==
    /\ session_results # None
    /\ session_results.sip_amount > 0
    /\ session_results.lumpsum_amount > 0
    /\ QSign(session_results.total_return) > 0

\* The rows of the report's sheet whose first cell holds the text t
RowsLabelled(report, t) ==
    {c[1] : c \in {d \in DOMAIN report.text : d[2] = 0 /\ report.text[d] = t}}

\* C8: the sheet written by create_excel_report holds exactly one year-wise
\* row per element of the displayed series, with the same year, SIP,
\* lumpsum and total values, and its 'Total Wealth Created' cell holds the
\* summary's total_future unchanged.
C8_ReportMatchesSeries ==
    calculate_btn
        => /\ Cardinality(RowsLabelled(download_data, "Year")) = 1
           /\ Cardinality(RowsLabelled(download_data, "Total Wealth Created")) = 1
           /\ \A h \in RowsLabelled(download_data, "Year") :
                  /\ {c \in DOMAIN download_data.number : c[1] > h}
                        = {<<h + i, col>> : i \in 1..Len(chart_data), col \in 0..3}
                  /\ \A i \in 1..Len(chart_data) :
                        /\ QEq(download_data.number[<<h + i, 0>>], QInt(chart_data[i].Year))
                        /\ QEq(download_data.number[<<h + i, 1>>], chart_data[i].SIP)
                        /\ QEq(download_data.number[<<h + i, 2>>], chart_data[i].Lumpsum)
                        /\ QEq(download_data.number[<<h + i, 3>>], chart_data[i].Total)
           /\ \A w \in RowsLabelled(download_data, "Total Wealth Created") :
                  download_data.number[<<w, 1>>] = session_results.total_future

C8_Witness ==
    /\ calculate_btn
    /\ download_data # None
    /\ Len(chart_data) >= 2
    /\ sip_amount > 0
    /\ lumpsum_amount > 0

\* The input parameters a report shows, as the widgets would hold them
ReportShows(report, sip, lump, yrs, rate) ==
    /\ QEq(report.number[A1(1, 5)], QInt(sip))
    /\ QEq(report.number[A1(1, 6)], QInt(lump))
    /\ QEq(report.number[A1(1, 7)], QInt(yrs))
    /\ QEq(QMul(report.number[A1(1, 8)], QInt(100)), rate)

\* C10: in every script run, a report is generated only if Calculate was
\* clicked in that run, and then from the bundle written in that run: the
\* bundle and the report hold the inputs of that run; a run without a
\* Calculate click neither writes the bundle nor generates a report.
C10_ReportOnlyFromSameRun ==
    [][ /\ download_data' # None
            => /\ calculate_btn'
               /\ session_results'.sip_amount = sip_amount'
               /\ session_results'.lumpsum_amount = lumpsum_amount'
               /\ session_results'.investment_years = investment_years'
               /\ session_results'.expected_return = expected_return'
               /\ ReportShows(download_data', sip_amount', lumpsum_amount',
                              investment_years', expected_return')
        /\ ~calculate_btn'
            => /\ session_results' = session_results
               /\ download_data' = None
      ]_vars

\* a run without Calculate that leaves a bundle of other inputs in the session
C10_Witness ==
    /\ ~calculate_btn
    /\ session_results # None
    /\ session_results.sip_amount # sip_amount
    /\ download_data = None
====
